---- MODULE Spec2Model ----
(***************************************************************************)
(* Semantic validation of a Transaction (iota.go, transaction.go and       *)
(* transaction_essence.go), modelled as the state machine of one call of   *)
(* Transaction.SemanticallyValidate: the working set is built, then the    *)
(* six checks run in order, the unlock pass one input at a time and the    *)
(* state transition pass one chain at a time.                              *)
(*                                                                         *)
(* Next to it, the calls of Transaction.Serialize and                      *)
(* Transaction.Deserialize, which may run concurrently: each call is a     *)
(* process that steps through the statements of its function.              *)
(***************************************************************************)
EXTENDS Integers, Sequences, FiniteSets, TLC

VARIABLES
    tx,          \* the Transaction: Essence.Inputs, Essence.Outputs, UnlockBlocks
    inputs,      \* the OutputSet handed to SemanticallyValidate: OutputID -> Output
    svCtx,       \* the SemanticValidationContext, WorkingSet field included
    oracle,      \* what the external capabilities answer (state transition rules)
    pc,          \* "call", "run" (inside runSemanticValidations), "done"
    checkIdx,    \* position of runSemanticValidations in its list of checks
    inputIndex,  \* loop variable of TxSemanticInputUnlocks
    err,         \* the error SemanticallyValidate returns (nil while running)
    executed,    \* history: the checks that ran to their end, with their result
    unlockLog,   \* history: what unlockOutput saw and did for each input
    stvfCalls,   \* history: the ValidateStateTransition calls made
    given,       \* history: the input set and the context as the caller passed them
    arrayRules,  \* the ArrayRules values in memory: txUnlockBlockArrayRules and the locals
    codecCalls   \* the running calls of Transaction.Serialize and Deserialize

vars == <<tx, inputs, svCtx, oracle, pc, checkIdx, inputIndex, err, executed,
          unlockLog, stvfCalls, given, arrayRules, codecCalls>>
\* what the codec calls work on, and what the semantic validation works on
codecVars == <<arrayRules, codecCalls>>
semanticVars == <<tx, inputs, svCtx, oracle, pc, checkIdx, inputIndex, err, executed,
                  unlockLog, stvfCalls, given>>

----------------------------------------------------------------------------
(* Bounds of the model. *)

\* width, in bits, of the model's unsigned deposit sums (uint64 in the code)
U64Bits == 5
\* largest deposit and largest dust return amount of an output
MaxDeposit == 2
\* largest native token amount held by one output
MaxTokenAmount == 1
\* largest milestone index / unix time of the context or of a feature block
MaxTime == 1
\* most inputs of a transaction; the input set has one more output id
MaxInputs == 2
\* most outputs of a transaction
MaxOutputs == 2

U64Mod == 2 ^ U64Bits

----------------------------------------------------------------------------
(* Values. *)

NoVal == -1

\* Addresses and chain ids. Ed25519 addresses are directly unlockable; alias
\* and NFT addresses are chain constrained and are the chain id itself.
Addr(kind, n) == [kind |-> kind, n |-> n]
NoAddr == Addr("none", 0)
Ed(n) == Addr("ed25519", n)
AliasAddr(n) == Addr("alias", n)
NFTAddr(n) == Addr("nft", n)

\* The id derived from an output id (a hash in the code): distinct for the
\* output ids of inputs and for the output slots of tx.
IDFromOutputID(ref) == 10 + ref
IDFromTxOutput(index) == 20 + index

IsChainConstrainedAddress(a) == a.kind \in {"alias", "nft"}
IsDirectUnlockableAddress(a) == a.kind = "ed25519"

\* Native token ids; the foundry id is a prefix of the token id.
TokenIDs == {1, 2}
FoundryIDOfToken(t) == Addr("foundry", t)
NoTokens == [t \in TokenIDs |-> 0]

\* Errors: kind, and the input or output index they carry (-1: none).
\* ErrInputOutputSumMismatch carries the two sums.
Error(kind, at) == [kind |-> kind, at |-> at, in |-> -1, out |-> -1]
SumMismatch(in, out) ==
    [kind |-> "ErrInputOutputSumMismatch", at |-> -1, in |-> in, out |-> out]
Nil == Error("nil", -1)

\* Outputs.
BaseOutput ==
    [type |-> "Simple", deposit |-> 1, address |-> NoAddr,
     stateController |-> NoAddr, governanceController |-> NoAddr,
     chainId |-> 0, stateIndex |-> 0,
     sender |-> NoAddr, dustReturn |-> NoVal,
     timelockIndex |-> NoVal, timelockUnix |-> NoVal,
     expirationIndex |-> NoVal, expirationUnix |-> NoVal,
     metadata |-> FALSE, nativeTokens |-> NoTokens]

SimpleOutput(a, d) == [BaseOutput EXCEPT !.address = a, !.deposit = d]
ExtendedOutput(a, d) ==
    [BaseOutput EXCEPT !.type = "Extended", !.address = a, !.deposit = d]
AliasOutput(id, stateCtrl, govCtrl, stateIdx, d) ==
    [BaseOutput EXCEPT !.type = "Alias", !.chainId = id,
                       !.stateController = stateCtrl,
                       !.governanceController = govCtrl,
                       !.stateIndex = stateIdx, !.deposit = d]
NFTOutput(id, a, d) ==
    [BaseOutput EXCEPT !.type = "NFT", !.chainId = id, !.address = a,
                       !.deposit = d]
FoundryOutput(id, a, d) ==
    [BaseOutput EXCEPT !.type = "Foundry", !.chainId = id, !.address = a,
                       !.deposit = d]

\* Unlock blocks.
SignatureUnlockBlock(signer) == [type |-> "Signature", signer |-> signer, ref |-> -1]
ReferenceUnlockBlock(r) == [type |-> "Reference", signer |-> NoAddr, ref |-> r]
AliasUnlockBlock(r) == [type |-> "Alias", signer |-> NoAddr, ref |-> r]
NFTUnlockBlock(r) == [type |-> "NFT", signer |-> NoAddr, ref |-> r]

----------------------------------------------------------------------------
(* Capabilities of outputs, addresses and unlock blocks. *)

\* output.(FeatureBlockOutput): every output type but SimpleOutput
IsFeatureBlockOutput(o) == o.type # "Simple"
\* output.(ChainConstrainedOutput)
IsChainConstrainedOutput(o) == o.type \in {"Alias", "Foundry", "NFT"}
\* output.(MultiIdentOutput): only AliasOutput
IsMultiIdentOutput(o) == o.type = "Alias"

\* featBlockSet[kind] of a FeatureBlockOutput
HasSender(o) == IsFeatureBlockOutput(o) /\ o.sender # NoAddr
HasDustDepositReturn(o) == IsFeatureBlockOutput(o) /\ o.dustReturn # NoVal
HasTimelockIndex(o) == IsFeatureBlockOutput(o) /\ o.timelockIndex # NoVal
HasTimelockUnix(o) == IsFeatureBlockOutput(o) /\ o.timelockUnix # NoVal
HasExpirationIndex(o) == IsFeatureBlockOutput(o) /\ o.expirationIndex # NoVal
HasExpirationUnix(o) == IsFeatureBlockOutput(o) /\ o.expirationUnix # NoVal
\* len(output.FeatureBlocks())
FeatureBlockCount(o) ==
    IF ~IsFeatureBlockOutput(o) THEN 0
    ELSE (IF o.sender # NoAddr THEN 1 ELSE 0)
       + (IF o.dustReturn # NoVal THEN 1 ELSE 0)
       + (IF o.timelockIndex # NoVal THEN 1 ELSE 0)
       + (IF o.timelockUnix # NoVal THEN 1 ELSE 0)
       + (IF o.expirationIndex # NoVal THEN 1 ELSE 0)
       + (IF o.expirationUnix # NoVal THEN 1 ELSE 0)
       + (IF o.metadata THEN 1 ELSE 0)

\* The chain of a chain constrained output: its stored id, or, when that is
\* zero, the given derived id (alias and NFT only).
ChainID(o, derived) ==
    LET kind == CASE o.type = "Alias" -> "alias"
                  [] o.type = "NFT" -> "nft"
                  [] OTHER -> "foundry"
    IN  IF o.chainId = 0 /\ o.type # "Foundry"
        THEN Addr(kind, derived)
        ELSE Addr(kind, o.chainId)
\* chain.Addressable(): alias and NFT ids are, foundry ids are not
Addressable(chain) == chain.kind \in {"alias", "nft"}

IsReferentialUnlockBlock(u) == u.type \in {"Reference", "Alias", "NFT"}
Chainable(u) == u.type \in {"Alias", "NFT"}
SourceAllowed(u, a) ==
    CASE u.type = "Reference" -> ~IsChainConstrainedAddress(a)
      [] u.type = "Alias" -> a.kind = "alias"
      [] u.type = "NFT" -> a.kind = "nft"
      [] OTHER -> FALSE
\* ident.Unlock(essenceMsgToSign, signature)
SignatureUnlocks(ident, u) == u.signer = ident

----------------------------------------------------------------------------
(* Sums over finite sets and sequences. *)

RECURSIVE SumOver(_, _)
SumOver(S, f) ==
    IF S = {} THEN 0
    ELSE LET x == CHOOSE y \in S : TRUE
         IN  f[x] + SumOver(S \ {x}, f)

SeqSum(s) == SumOver(DOMAIN s, s)

----------------------------------------------------------------------------
(* The working set. *)

EmptyIdents == [a \in {} |-> 0]
NoOutput == [BaseOutput EXCEPT !.type = "none", !.deposit = 0]

\* svCtx.WorkingSet = nil
NilWorkingSet ==
    [set |-> FALSE, UnlockedIdents |-> EmptyIdents,
     InChains |-> [c \in {} |-> NoOutput], OutChains |-> [c \in {} |-> NoOutput],
     InNativeTokens |-> NoTokens, OutNativeTokens |-> NoTokens]

Range(s) == {s[i] : i \in DOMAIN s}

\* TransactionEssence.SyntacticallyValidate, reached through SigningMessage
\* and Serialize with validation: input and output counts, unique inputs,
\* outputs that deposit something.
EssenceSyntacticallyValidate(t) ==
    IF Len(t.inputs) = 0 THEN Error("ErrMinInputsNotReached", -1)
    ELSE IF Len(t.outputs) = 0 THEN Error("ErrMinOutputsNotReached", -1)
    ELSE IF \E i, j \in DOMAIN t.inputs : i # j /\ t.inputs[i] = t.inputs[j]
         THEN Error("ErrInputUTXORefsNotUnique", -1)
    ELSE IF \E i \in DOMAIN t.outputs : t.outputs[i].deposit = 0
         THEN Error("ErrOutputDepositZero", -1)
    ELSE Nil

\* OutputSet.ChainConstrainedOutputSet(): a Go map filled while ranging over
\* a map, so that of two entries with one chain id either may stay.
InChainIDs(inputSet) ==
    {ChainID(inputSet[id], IDFromOutputID(id)) :
        id \in {x \in DOMAIN inputSet : IsChainConstrainedOutput(inputSet[x])}}
InChainsChoices(inputSet) ==
    {f \in [InChainIDs(inputSet) -> Range(inputSet)] :
        \A c \in DOMAIN f :
            \E id \in DOMAIN inputSet :
                /\ IsChainConstrainedOutput(inputSet[id])
                /\ ChainID(inputSet[id], IDFromOutputID(id)) = c
                /\ f[c] = inputSet[id]}

\* Outputs.ChainConstrainedOutputSet(txID): filled in output order, so the
\* last output of a chain id stays.
OutChainsOf(outputs) ==
    LET idx == {i \in DOMAIN outputs : IsChainConstrainedOutput(outputs[i])}
        idOf(i) == ChainID(outputs[i], IDFromTxOutput(i - 1))
        ids == {idOf(i) : i \in idx}
        last(c) == CHOOSE i \in idx :
                       idOf(i) = c /\ \A j \in idx : idOf(j) = c => j <= i
    IN  [c \in ids |-> outputs[last(c)]]

\* NewSemValiContextWorkingSet(t, inputs), inChains being what
\* ChainConstrainedOutputSet made of the input set
NewSemValiContextWorkingSet(t, inputSet, inChains) ==
    LET e == EssenceSyntacticallyValidate(t)
    IN  IF e # Nil
        THEN [err |-> e, ws |-> NilWorkingSet]
        ELSE [err |-> Nil,
              ws |-> [set |-> TRUE, UnlockedIdents |-> EmptyIdents,
                      InChains |-> inChains,
                      OutChains |-> OutChainsOf(t.outputs),
                      InNativeTokens |-> NoTokens,
                      OutNativeTokens |-> NoTokens]]

----------------------------------------------------------------------------
(* TxSemanticInputUnlocks. Input indices are those of the code, from 0. *)

\* looking the alias up by its stored id only
identToUnlockFromMultiIdentOutputStored(ws, t, in, index) ==
    IF \/ Addr("alias", in.chainId) \notin DOMAIN ws.OutChains
       \/ in.stateIndex = ws.OutChains[Addr("alias", in.chainId)].stateIndex
    THEN in.governanceController
    ELSE in.stateController

\* identToUnlockFromMultiIdentOutput(svCtx, inputMultiIdentOutput, inputIndex)
identToUnlockFromMultiIdentOutput(ws, t, in, index) ==
    LET aliasID == IF in.chainId = 0
                   THEN Addr("alias", IDFromOutputID(t.inputs[index + 1]))
                   ELSE Addr("alias", in.chainId)
    IN  IF \/ aliasID \notin DOMAIN ws.OutChains
           \/ in.stateIndex = ws.OutChains[aliasID].stateIndex
        THEN in.governanceController
        ELSE in.stateController

identToUnlock(ws, t, in, index) ==
    IF IsMultiIdentOutput(in)
    THEN identToUnlockFromMultiIdentOutput(ws, t, in, index)
    ELSE in.address

\* "panic" stands for the failed type assertion on a missing sender
SenderPanics(o) ==
    /\ HasExpirationIndex(o) \/ HasExpirationUnix(o)
    /\ ~HasSender(o)
\* the sender taking over as soon as one of two expirations has passed
checkSenderFeatureBlockIdentUnlockEither(ctx, o) ==
    IF ~IsFeatureBlockOutput(o) THEN NoAddr
    ELSE IF ~HasExpirationIndex(o) /\ ~HasExpirationUnix(o) THEN NoAddr
    ELSE IF \/ HasExpirationIndex(o) /\ o.expirationIndex <= ctx.ConfirmingMilestoneIndex
            \/ HasExpirationUnix(o) /\ o.expirationUnix <= ctx.ConfirmingMilestoneUnix
         THEN o.sender ELSE NoAddr

\* checkSenderFeatureBlockIdentUnlock(svCtx, output): the sender's address,
\* NoAddr for nil
checkSenderFeatureBlockIdentUnlock(ctx, o) ==
    IF ~IsFeatureBlockOutput(o) THEN NoAddr
    ELSE IF ~HasExpirationIndex(o) /\ ~HasExpirationUnix(o) THEN NoAddr
    ELSE IF HasExpirationIndex(o) /\ HasExpirationUnix(o)
         THEN IF /\ o.expirationIndex <= ctx.ConfirmingMilestoneIndex
                 /\ o.expirationUnix <= ctx.ConfirmingMilestoneUnix
              THEN o.sender ELSE NoAddr
    ELSE IF HasExpirationIndex(o)
         THEN IF o.expirationIndex <= ctx.ConfirmingMilestoneIndex
              THEN o.sender ELSE NoAddr
    ELSE IF o.expirationUnix <= ctx.ConfirmingMilestoneUnix
         THEN o.sender ELSE NoAddr

\* the identity unlockOutput settles on for an input
TargetIdent(ctx, ws, t, in, index) ==
    LET actual == checkSenderFeatureBlockIdentUnlock(ctx, in)
    IN  IF actual # NoAddr THEN actual ELSE identToUnlock(ws, t, in, index)

\* a referential branch that accepts any index once the identity is unlocked
RefersToUnlockAnyIndex(idents, ident, u) ==
    ident \in DOMAIN idents

\* unlockOutput's referential branches: the unlock block must name the index
\* the identity was unlocked at
RefersToUnlock(idents, ident, u) ==
    ident \in DOMAIN idents /\ idents[ident] = u.ref

\* a signature branch that does not look the identity up
WasAlreadyUnlockedNever(idents, ident) == FALSE

\* _, wasAlreadyUnlocked := svCtx.WorkingSet.UnlockedIdents[ident.Key()]
WasAlreadyUnlocked(idents, ident) == ident \in DOMAIN idents

\* a direct branch that takes any referential unlock block
DirectReferenceAllowedAny(u, ident) == TRUE

\* the condition of the direct branch on a referential unlock block:
\* !(uBlock.Chainable() || !uBlock.SourceAllowed(targetIdent))
DirectReferenceAllowed(u, ident) == ~Chainable(u) /\ SourceAllowed(u, ident)

\* the condition of the chain constrained branch on the unlock block
ChainReferenceAllowed(u, ident) ==
    IsReferentialUnlockBlock(u) /\ Chainable(u) /\ SourceAllowed(u, ident)

\* a signature branch that also unlocks the chain address of the input
RecordUnlockedWithChain(idents, ident, t, in, index) ==
    LET chain == ChainID(in, IDFromOutputID(t.inputs[index + 1]))
    IN  IF IsChainConstrainedOutput(in) /\ Addressable(chain)
        THEN (chain :> index) @@ (ident :> index) @@ idents
        ELSE (ident :> index) @@ idents

\* svCtx.WorkingSet.UnlockedIdents[ident.Key()] = uint16(inputIndex), the
\* last statement of the signature branch
RecordUnlocked(idents, ident, t, in, index) == (ident :> index) @@ idents

\* unlockOutput(svCtx, output, inputIndex): the error, the UnlockedIdents
\* it leaves, the identity it settled on and whether ident.Unlock was called
unlockOutput(ctx, ws, t, in, index) ==
    LET idents == ws.UnlockedIdents
    IN  IF SenderPanics(in) \/ index >= Len(t.unlocks)
        THEN [err |-> Error("panic", index), idents |-> idents, target |-> NoAddr,
              signatureChecked |-> FALSE]
        ELSE
        LET ident == TargetIdent(ctx, ws, t, in, index)
            u == t.unlocks[index + 1]
            fail(kind) == [err |-> Error(kind, index), idents |-> idents,
                           target |-> ident, signatureChecked |-> FALSE]
            ok(unlocked) == [err |-> Nil, idents |-> unlocked, target |-> ident,
                             signatureChecked |-> FALSE]
            checked(r) == [r EXCEPT !.signatureChecked = TRUE]
        IN  IF IsChainConstrainedAddress(ident)
            THEN IF ~ChainReferenceAllowed(u, ident)
                 THEN fail("ErrInvalidInputUnlock")
                 ELSE IF ~RefersToUnlock(idents, ident, u)
                 THEN fail("ErrInvalidInputUnlock")
                 ELSE IF /\ IsChainConstrainedOutput(in)
                         /\ Addressable(ChainID(in, IDFromOutputID(t.inputs[index + 1])))
                 THEN ok((ChainID(in, IDFromOutputID(t.inputs[index + 1])) :> index)
                            @@ idents)
                 ELSE ok(idents)
            ELSE IF IsDirectUnlockableAddress(ident)
            THEN IF IsReferentialUnlockBlock(u)
                 THEN IF ~DirectReferenceAllowed(u, ident)
                      THEN fail("ErrInvalidInputUnlock")
                      ELSE IF ~RefersToUnlock(idents, ident, u)
                      THEN fail("ErrInvalidInputUnlock")
                      ELSE ok(idents)
                 ELSE IF WasAlreadyUnlocked(idents, ident)
                      THEN fail("ErrInvalidInputUnlock")
                      ELSE IF ~SignatureUnlocks(ident, u)
                      THEN checked(fail("ErrSignatureInvalid"))
                      ELSE checked(ok(RecordUnlocked(idents, ident, t, in, index)))
            ELSE fail("panic")

----------------------------------------------------------------------------
(* TxSemanticDeposit. *)

\* the outputs the loop over the input side ranges over: every entry of
\* the working set's InputSet
DepositInputSide(inputSet) == DOMAIN inputSet

\* "in": the uint64 sum of the deposits of the input side
DepositInSum(inputSet) ==
    SumOver(DepositInputSide(inputSet),
            [id \in DOMAIN inputSet |-> inputSet[id].deposit]) % U64Mod
\* "out": the uint64 sum of the deposits of the outputs
DepositOutSum(outputs) ==
    SumOver(DOMAIN outputs, [i \in DOMAIN outputs |-> outputs[i].deposit]) % U64Mod

\* inputSumReturnAmountPerIdent: the keys, and the uint64 sum of a key
ReturnIdents(inputSet) ==
    {inputSet[id].sender :
        id \in {x \in DepositInputSide(inputSet) : HasDustDepositReturn(inputSet[x])}}
InputSumReturnAmount(inputSet, ident) ==
    SumOver({id \in DepositInputSide(inputSet) :
                HasDustDepositReturn(inputSet[id]) /\ inputSet[id].sender = ident},
            [id \in DOMAIN inputSet |-> inputSet[id].dustReturn]) % U64Mod

\* counting every ExtendedOutput, with feature blocks or without
IsSimpleTransferAnyExtended(o) ==
    o.type \in {"Simple", "Extended"}

\* the outputs that count as simple transfers: SimpleOutput, and
\* ExtendedOutput without feature blocks
IsSimpleTransfer(o) ==
    \/ o.type = "Simple"
    \/ o.type = "Extended" /\ FeatureBlockCount(o) = 0
\* outputSimpleTransfersPerIdent: the keys, and the uint64 sum of a key
SimpleTransferIdents(outputs) ==
    {outputs[i].address : i \in {j \in DOMAIN outputs : IsSimpleTransfer(outputs[j])}}
OutputSimpleTransfers(outputs, ident) ==
    SumOver({i \in DOMAIN outputs :
                IsSimpleTransfer(outputs[i]) /\ outputs[i].address = ident},
            [i \in DOMAIN outputs |-> outputs[i].deposit]) % U64Mod

\* a DustDepositReturnFeatureBlock without SenderFeatureBlock: the type
\* assertion on the missing sender panics
DepositPanics(inputSet) ==
    \E id \in DepositInputSide(inputSet) :
        HasDustDepositReturn(inputSet[id]) /\ ~HasSender(inputSet[id])

ReturnAmountFulfilled(inputSet, outputs, ident) ==
    /\ ident \in SimpleTransferIdents(outputs)
    /\ OutputSimpleTransfers(outputs, ident) >= InputSumReturnAmount(inputSet, ident)

TxSemanticDeposit(t, inputSet) ==
    IF DepositPanics(inputSet) THEN Error("panic", -1)
    ELSE IF DepositInSum(inputSet) # DepositOutSum(t.outputs)
    THEN SumMismatch(DepositInSum(inputSet), DepositOutSum(t.outputs))
    ELSE IF \E ident \in ReturnIdents(inputSet) :
                ~ReturnAmountFulfilled(inputSet, t.outputs, ident)
    THEN Error("ErrReturnAmountNotFulFilled", -1)
    ELSE Nil

----------------------------------------------------------------------------
(* TxSemanticNativeTokens. *)

\* NativeTokenOutputs().Sum() of a collection of outputs, per token id
\* (0: the token id is not in the sum)
NativeTokenSumOfSet(inputSet) ==
    [tok \in TokenIDs |->
        SumOver(DOMAIN inputSet,
                [id \in DOMAIN inputSet |-> inputSet[id].nativeTokens[tok]])]
NativeTokenSumOfSeq(outputs) ==
    [tok \in TokenIDs |->
        SumOver(DOMAIN outputs,
                [i \in DOMAIN outputs |-> outputs[i].nativeTokens[tok]])]

\* the two sums the check stores in the working set: both are taken from
\* InputsByType
InNativeTokensOf(t, inputSet) == NativeTokenSumOfSet(inputSet)
OutNativeTokensOf(t, inputSet) == NativeTokenSumOfSet(inputSet)

\* OutputsByType[OutputFoundry] / InputsByType[OutputFoundry] is not nil
HasFoundryOutput(t) == \E i \in DOMAIN t.outputs : t.outputs[i].type = "Foundry"
HasFoundryInput(inputSet) == \E id \in DOMAIN inputSet : inputSet[id].type = "Foundry"

\* NativeTokenSum.Balanced: the two maps are equal
Balanced(inSum, outSum) == inSum = outSum

\* the two loops over the sums: a token id whose sums differ needs its
\* foundry in OutChains
UnbalancedWithoutFoundry(ws, inSum, outSum) ==
    \E tok \in TokenIDs :
        /\ inSum[tok] # outSum[tok]
        /\ FoundryIDOfToken(tok) \notin DOMAIN ws.OutChains

TxSemanticNativeTokens(ws, t, inputSet) ==
    LET inSum == InNativeTokensOf(t, inputSet)
        outSum == OutNativeTokensOf(t, inputSet)
        e == IF ~HasFoundryOutput(t) /\ ~HasFoundryInput(inputSet)
             THEN IF Balanced(inSum, outSum) THEN Nil
                  ELSE Error("ErrNativeTokenSumUnbalanced", -1)
             ELSE IF UnbalancedWithoutFoundry(ws, inSum, outSum)
                  THEN Error("ErrNativeTokenSumUnbalanced", -1)
                  ELSE Nil
    IN  [err |-> e, inSum |-> inSum, outSum |-> outSum]

----------------------------------------------------------------------------
(* TxSemanticTimelock. *)

\* taking a timelock equal to the confirming milestone's as not reached
TimelockedEntriesInclusive(ctx, inputSet) ==
    {id \in DOMAIN inputSet :
        \/ /\ HasTimelockIndex(inputSet[id])
           /\ ctx.ConfirmingMilestoneIndex <= inputSet[id].timelockIndex
        \/ /\ HasTimelockUnix(inputSet[id])
           /\ ctx.ConfirmingMilestoneUnix <= inputSet[id].timelockUnix}

\* the entries of the InputSet whose timelock the confirming milestone has
\* not reached
TimelockedEntries(ctx, inputSet) ==
    {id \in DOMAIN inputSet :
        \/ /\ HasTimelockIndex(inputSet[id])
           /\ ctx.ConfirmingMilestoneIndex < inputSet[id].timelockIndex
        \/ /\ HasTimelockUnix(inputSet[id])
           /\ ctx.ConfirmingMilestoneUnix < inputSet[id].timelockUnix}

\* the errors the check may return: it ranges over a map, so any of the
\* timelocked entries may be the one it stops at
TxSemanticTimelock(ctx, inputSet) ==
    IF TimelockedEntries(ctx, inputSet) = {} THEN {Nil}
    ELSE {Error("ErrInvalidInputUnlock", id) : id \in TimelockedEntries(ctx, inputSet)}

----------------------------------------------------------------------------
(* TxSemanticOutputsSender. Output indices are those of the code, from 0. *)

SenderNotUnlocked(ws, o) ==
    HasSender(o) /\ o.sender \notin DOMAIN ws.UnlockedIdents

\* reporting the last output whose sender is not unlocked
TxSemanticOutputsSenderLast(ws, t) ==
    LET bad == {i \in DOMAIN t.outputs : SenderNotUnlocked(ws, t.outputs[i])}
    IN  IF bad = {} THEN Nil
        ELSE Error("ErrSenderFeatureBlockNotUnlocked",
                   (CHOOSE i \in bad : \A j \in bad : i >= j) - 1)

TxSemanticOutputsSender(ws, t) ==
    LET bad == {i \in DOMAIN t.outputs : SenderNotUnlocked(ws, t.outputs[i])}
    IN  IF bad = {} THEN Nil
        ELSE Error("ErrSenderFeatureBlockNotUnlocked",
                   (CHOOSE i \in bad : \A j \in bad : i <= j) - 1)

----------------------------------------------------------------------------
(* TxSemanticSTVFOnChains. *)

\* the call the first loop makes for a chain of InChains
InChainCall(ws, c) ==
    IF c \notin DOMAIN ws.OutChains
    THEN [chain |-> c, type |-> "Destroy", on |-> ws.InChains[c], next |-> NoOutput]
    ELSE [chain |-> c, type |-> "StateChange", on |-> ws.InChains[c],
          next |-> ws.OutChains[c]]
\* the call the second loop makes for a chain of OutChains with no previous
\* state
OutChainCall(ws, c) ==
    [chain |-> c, type |-> "Genesis", on |-> ws.OutChains[c], next |-> NoOutput]

\* loops that leave out the chains that only the output side has
STVFPendingInChainsOnly(ws, calls) ==
    {InChainCall(ws, c) :
        c \in DOMAIN ws.InChains \ {calls[i].chain : i \in DOMAIN calls}}

Called(calls) == {calls[i].chain : i \in DOMAIN calls}
\* the calls the loops may make next: the first loop comes first, and each
\* loop ranges over a map
STVFPending(ws, calls) ==
    LET inLeft == DOMAIN ws.InChains \ Called(calls)
        outLeft == (DOMAIN ws.OutChains \ DOMAIN ws.InChains) \ Called(calls)
    IN  IF inLeft # {} THEN {InChainCall(ws, c) : c \in inLeft}
        ELSE {OutChainCall(ws, c) : c \in outLeft}

\* chain.ValidateStateTransition(type, next, svCtx)
ValidateStateTransition(orc, call) ==
    IF call.type \in orc.rejects
    THEN Error("ErrInvalidChainStateTransition", -1)
    ELSE Nil

----------------------------------------------------------------------------
(* SemanticallyValidate and runSemanticValidations. *)

\* the checks, in the order SemanticallyValidate hands them over
Checks == <<"InputUnlocks", "Deposit", "NativeTokens", "Timelock",
            "OutputsSender", "STVFOnChains">>

\* a loop that keeps running the checks after one of them returned an error
AfterCheckContinuing(idx, e) ==
    IF idx = Len(Checks) THEN [pc |-> "done", checkIdx |-> idx, err |-> e]
    ELSE [pc |-> "run", checkIdx |-> idx + 1, err |-> e]

\* runSemanticValidations, after the check at position idx returned e: the
\* first error ends the loop and is returned
AfterCheck(idx, e) ==
    IF e # Nil THEN [pc |-> "done", checkIdx |-> idx, err |-> e]
    ELSE IF idx = Len(Checks) THEN [pc |-> "done", checkIdx |-> idx, err |-> Nil]
    ELSE [pc |-> "run", checkIdx |-> idx + 1, err |-> Nil]

Running(check) == pc = "run" /\ Checks[checkIdx] = check

\* the check at checkIdx returned e
Return(check, e) ==
    LET a == AfterCheck(checkIdx, e)
    IN  /\ pc' = a.pc
        /\ checkIdx' = a.checkIdx
        /\ err' = a.err
        /\ executed' = Append(executed, [check |-> check, err |-> e])

\* a working set kept in a local of the call
SetWorkingSetLocal(ctx, ws) == ctx

\* svCtx.WorkingSet, err = NewSemValiContextWorkingSet(t, inputs): the working
\* set is stored in the caller's context
SetWorkingSet(ctx, ws) == [ctx EXCEPT !.WorkingSet = ws]

\* SemanticallyValidate up to the call of runSemanticValidations
SemanticallyValidate ==
    /\ pc = "call"
    /\ \E inChains \in InChainsChoices(inputs) :
          LET r == NewSemValiContextWorkingSet(tx, inputs, inChains)
          IN  /\ svCtx' = SetWorkingSet(svCtx, r.ws)
              /\ err' = r.err
              /\ pc' = IF r.err # Nil THEN "done" ELSE "run"
    /\ checkIdx' = 1
    /\ inputIndex' = 0
    /\ UNCHANGED <<tx, inputs, oracle, executed, unlockLog, stvfCalls, given>>
    /\ UNCHANGED codecVars

\* naming the input after the one whose UTXO is missing
MissingUTXONext(index) == Error("ErrMissingUTXO", index + 1)

\* the UTXO of the input at index is not in the InputSet
MissingUTXO(index) == Error("ErrMissingUTXO", index)

\* one iteration of the loop of TxSemanticInputUnlocks, and its return
InputUnlocks ==
    /\ Running("InputUnlocks")
    /\ LET ws == svCtx.WorkingSet
       IN  IF inputIndex >= Len(tx.inputs)
           THEN /\ Return("InputUnlocks", Nil)
                /\ UNCHANGED <<svCtx, inputIndex, unlockLog>>
           ELSE IF tx.inputs[inputIndex + 1] \notin DOMAIN inputs
           THEN /\ Return("InputUnlocks", MissingUTXO(inputIndex))
                /\ UNCHANGED <<svCtx, inputIndex, unlockLog>>
           ELSE LET in == inputs[tx.inputs[inputIndex + 1]]
                    r == unlockOutput(svCtx, ws, tx, in, inputIndex)
                IN  /\ svCtx' = [svCtx EXCEPT !.WorkingSet.UnlockedIdents = r.idents]
                    /\ unlockLog' = Append(unlockLog,
                           [index |-> inputIndex, output |-> in,
                            target |-> r.target,
                            before |-> ws.UnlockedIdents, err |-> r.err,
                            signatureChecked |-> r.signatureChecked])
                    /\ IF r.err # Nil
                       THEN /\ Return("InputUnlocks", r.err)
                            /\ UNCHANGED inputIndex
                       ELSE IF inputIndex + 1 = Len(tx.inputs)
                       THEN /\ Return("InputUnlocks", Nil)
                            /\ inputIndex' = inputIndex + 1
                       ELSE /\ inputIndex' = inputIndex + 1
                            /\ UNCHANGED <<pc, checkIdx, err, executed>>
    /\ UNCHANGED <<tx, inputs, oracle, stvfCalls, given>>
    /\ UNCHANGED codecVars

Deposit ==
    /\ Running("Deposit")
    /\ Return("Deposit", TxSemanticDeposit(tx, inputs))
    /\ UNCHANGED <<tx, inputs, svCtx, oracle, inputIndex, unlockLog, stvfCalls, given>>
    /\ UNCHANGED codecVars

NativeTokens ==
    /\ Running("NativeTokens")
    /\ LET r == TxSemanticNativeTokens(svCtx.WorkingSet, tx, inputs)
       IN  /\ svCtx' = [svCtx EXCEPT !.WorkingSet.InNativeTokens = r.inSum,
                                     !.WorkingSet.OutNativeTokens = r.outSum]
           /\ Return("NativeTokens", r.err)
    /\ UNCHANGED <<tx, inputs, oracle, inputIndex, unlockLog, stvfCalls, given>>
    /\ UNCHANGED codecVars

Timelock ==
    /\ Running("Timelock")
    /\ \E e \in TxSemanticTimelock(svCtx, inputs) : Return("Timelock", e)
    /\ UNCHANGED <<tx, inputs, svCtx, oracle, inputIndex, unlockLog, stvfCalls, given>>
    /\ UNCHANGED codecVars

OutputsSender ==
    /\ Running("OutputsSender")
    /\ Return("OutputsSender", TxSemanticOutputsSender(svCtx.WorkingSet, tx))
    /\ UNCHANGED <<tx, inputs, svCtx, oracle, inputIndex, unlockLog, stvfCalls, given>>
    /\ UNCHANGED codecVars

\* one ValidateStateTransition call of TxSemanticSTVFOnChains, or its return
STVFOnChains ==
    /\ Running("STVFOnChains")
    /\ LET pending == STVFPending(svCtx.WorkingSet, stvfCalls)
       IN  IF pending = {}
           THEN /\ Return("STVFOnChains", Nil)
                /\ UNCHANGED stvfCalls
           ELSE \E call \in pending :
                   LET e == ValidateStateTransition(oracle, call)
                       calls == Append(stvfCalls, call)
                   IN  /\ stvfCalls' = calls
                       /\ IF e # Nil
                          THEN Return("STVFOnChains", e)
                          ELSE IF STVFPending(svCtx.WorkingSet, calls) = {}
                          THEN Return("STVFOnChains", Nil)
                          ELSE UNCHANGED <<pc, checkIdx, err, executed>>
    /\ UNCHANGED <<tx, inputs, svCtx, oracle, inputIndex, unlockLog, given>>
    /\ UNCHANGED codecVars

Next ==
    \/ SemanticallyValidate
    \/ InputUnlocks
    \/ Deposit
    \/ NativeTokens
    \/ Timelock
    \/ OutputsSender
    \/ STVFOnChains

----------------------------------------------------------------------------
(* Transaction.Serialize and Transaction.Deserialize. The bytes a call      *)
(* reads or writes are modelled by the transaction they encode: its inputs, *)
(* its outputs and its unlock blocks, with their counts.                    *)

\* most calls running at the same time
MaxCalls == 2

MaxInputsCount == 127
MinInputsCount == 1
MaxOutputsCount == 127
MinOutputsCount == 1

\* serializer.ArrayRules: the bounds of an array and whether its elements
\* must differ
ArrayRules(min, max, noDuplicates) ==
    [Min |-> min, Max |-> max, NoDuplicates |-> noDuplicates]
\* input rules that let equal elements pass
inputsArrayBoundAnyElements == ArrayRules(MinInputsCount, MaxInputsCount, FALSE)
inputsArrayBound == ArrayRules(MinInputsCount, MaxInputsCount, TRUE)
outputsArrayBound == ArrayRules(MinOutputsCount, MaxOutputsCount, FALSE)
\* the package variable: min and max are left at their zero values
txUnlockBlockArrayRules == ArrayRules(0, 0, FALSE)

\* where the ArrayRules values live: the package variable, and the local
\* variable unlockBlockArrayRulesCopy of each call
GlobalRules == 0
\* a local that is the package variable itself
RulesLocationShared(c) == GlobalRules

\* unlockBlockArrayRulesCopy := txUnlockBlockArrayRules declares a variable
\* of the call, with a value of its own
RulesLocation(c) == c

\* the array rules as the serializer enforces them: the count within
\* [Min, Max], then no two equal elements
HasDuplicates(s) == \E i, j \in DOMAIN s : i # j /\ s[i] = s[j]
CheckBounds(rules, count) ==
    IF count < rules.Min \/ count > rules.Max
    THEN Error("ArrayBoundViolation", -1)
    ELSE Nil
CheckArray(rules, s) ==
    IF CheckBounds(rules, Len(s)) # Nil THEN CheckBounds(rules, Len(s))
    ELSE IF rules.NoDuplicates /\ HasDuplicates(s) THEN Error("DuplicateElement", -1)
    ELSE Nil

\* ValidateOutputs(u.Outputs, OutputsPredicateAddrUnique())
OutputsPredicateAddrUnique(outputs) ==
    IF \E i, j \in DOMAIN outputs :
          /\ i # j
          /\ outputs[i].type = "Simple" /\ outputs[j].type = "Simple"
          /\ outputs[i].address = outputs[j].address
    THEN Error("ErrOutputAddrNotUnique", -1)
    ELSE Nil

\* TransactionEssence.Deserialize of the bytes that encode the essence of t
EssenceDeserialize(t, validate) ==
    IF ~validate THEN Nil
    ELSE IF CheckArray(inputsArrayBound, t.inputs) # Nil
    THEN CheckArray(inputsArrayBound, t.inputs)
    ELSE IF CheckArray(outputsArrayBound, t.outputs) # Nil
    THEN CheckArray(outputsArrayBound, t.outputs)
    ELSE OutputsPredicateAddrUnique(t.outputs)

\* TransactionEssence.Serialize: with validation, SyntacticallyValidate and
\* then the inputs' uniqueness validator while the inputs are written
EssenceSerialize(t, validate) ==
    IF ~validate THEN Nil
    ELSE IF EssenceSyntacticallyValidate(t) # Nil THEN EssenceSyntacticallyValidate(t)
    ELSE IF HasDuplicates(t.inputs) THEN Error("DuplicateElement", -1)
    ELSE Nil

\* ValidateUnlockBlocks(t.UnlockBlocks, UnlockBlocksSigUniqueAndRefValidator())
ValidateUnlockBlocks(unlocks) ==
    IF \/ \E i, j \in DOMAIN unlocks :
             /\ i # j
             /\ unlocks[i].type = "Signature" /\ unlocks[j].type = "Signature"
             /\ unlocks[i].signer = unlocks[j].signer
       \/ \E i \in DOMAIN unlocks :
             /\ unlocks[i].type # "Signature"
             /\ unlocks[i].ref >= i - 1
    THEN Error("ErrInvalidUnlockBlocks", -1)
    ELSE Nil

\* txDeSeriValidation and Transaction.syntacticallyValidate
txDeSeriValidation(t, deSeriCtx) ==
    IF deSeriCtx # "paras" THEN Error("ErrMissingDeSerializationParas", -1)
    ELSE IF EssenceSyntacticallyValidate(t) # Nil THEN EssenceSyntacticallyValidate(t)
    ELSE ValidateUnlockBlocks(t.unlocks)

\* a call: the function, its arguments (the transaction written, or the one
\* the bytes read encode), the statement it is at, its result, and what it
\* held the unlock blocks against
NoRules == ArrayRules(-1, -1, FALSE)
CodecCall(op, validate, deSeriCtx, t) ==
    [op |-> op, validate |-> validate, deSeriCtx |-> deSeriCtx, t |-> t,
     pc |-> "copy", err |-> Nil, essenceErr |-> Nil, enforced |-> NoRules]

\* the statements of the two functions, in the order they run
Statements(op) ==
    IF op = "Serialize"
    THEN <<"copy", "min", "max", "essence", "unlocks", "validation", "done">>
    ELSE <<"copy", "essence", "min", "max", "unlocks", "validation", "done">>
After(op, at) ==
    LET i == CHOOSE k \in DOMAIN Statements(op) : Statements(op)[k] = at
    IN  Statements(op)[i + 1]
\* the call went through its statement at with the result e: the builders
\* skip everything that follows an error
Step(call, e) ==
    [call EXCEPT !.pc = IF e # Nil THEN "done" ELSE After(call.op, call.pc),
                 !.err = e]
At(c, at) == c \in DOMAIN codecCalls /\ codecCalls[c].pc = at

\* unlockBlockArrayRulesCopy := txUnlockBlockArrayRules
CopyRules ==
    \E c \in DOMAIN codecCalls :
        /\ At(c, "copy")
        /\ arrayRules' = [arrayRules EXCEPT ![RulesLocation(c)] = arrayRules[GlobalRules]]
        /\ codecCalls' = [codecCalls EXCEPT ![c] = Step(@, Nil)]
        /\ UNCHANGED semanticVars

\* unlockBlockArrayRulesCopy.Min = inputCount
SetMin ==
    \E c \in DOMAIN codecCalls :
        /\ At(c, "min")
        /\ arrayRules' = [arrayRules EXCEPT
                             ![RulesLocation(c)].Min = Len(codecCalls[c].t.inputs)]
        /\ codecCalls' = [codecCalls EXCEPT ![c] = Step(@, Nil)]
        /\ UNCHANGED semanticVars

\* a maximum that is the one of the inputs array, whatever the transaction
SetMaxToMaxInputsCount ==
    \E c \in DOMAIN codecCalls :
        /\ At(c, "max")
        /\ arrayRules' = [arrayRules EXCEPT ![RulesLocation(c)].Max = MaxInputsCount]
        /\ codecCalls' = [codecCalls EXCEPT ![c] = Step(@, Nil)]
        /\ UNCHANGED semanticVars

\* unlockBlockArrayRulesCopy.Max = inputCount
SetMax ==
    \E c \in DOMAIN codecCalls :
        /\ At(c, "max")
        /\ arrayRules' = [arrayRules EXCEPT
                             ![RulesLocation(c)].Max = Len(codecCalls[c].t.inputs)]
        /\ codecCalls' = [codecCalls EXCEPT ![c] = Step(@, Nil)]
        /\ UNCHANGED semanticVars

\* WriteObject(t.Essence, ...) and ReadObject(&t.Essence, ...)
Essence ==
    \E c \in DOMAIN codecCalls :
        /\ At(c, "essence")
        /\ LET call == codecCalls[c]
               e == IF call.op = "Serialize"
                    THEN EssenceSerialize(call.t, call.validate)
                    ELSE EssenceDeserialize(call.t, call.validate)
           IN  codecCalls' = [codecCalls EXCEPT
                                 ![c] = [Step(call, e) EXCEPT !.essenceErr = e]]
        /\ UNCHANGED <<arrayRules, semanticVars>>

\* WriteSliceOfObjects(&t.UnlockBlocks, ..., &unlockBlockArrayRulesCopy, ...)
\* and ReadSliceOfObjects(&t.UnlockBlocks, ..., &unlockBlockArrayRulesCopy, ...)
UnlockBlocksSlice ==
    \E c \in DOMAIN codecCalls :
        /\ At(c, "unlocks")
        /\ LET call == codecCalls[c]
               rules == arrayRules[RulesLocation(c)]
               e == IF call.validate
                    THEN CheckArray(rules, call.t.unlocks)
                    ELSE Nil
           IN  codecCalls' = [codecCalls EXCEPT
                                 ![c] = [Step(call, e) EXCEPT !.enforced = rules]]
        /\ UNCHANGED <<arrayRules, semanticVars>>

\* WithValidation(deSeriMode, txDeSeriValidation(t, deSeriCtx))
WithValidation ==
    \E c \in DOMAIN codecCalls :
        /\ At(c, "validation")
        /\ LET call == codecCalls[c]
               e == IF call.validate
                    THEN txDeSeriValidation(call.t, call.deSeriCtx)
                    ELSE Nil
           IN  codecCalls' = [codecCalls EXCEPT ![c] = Step(call, e)]
        /\ UNCHANGED <<arrayRules, semanticVars>>

CodecNext ==
    \/ CopyRules
    \/ SetMin
    \/ SetMax
    \/ Essence
    \/ UnlockBlocksSlice
    \/ WithValidation
    \/ Next

----------------------------------------------------------------------------
(* The calls explored: a transaction, an input set, a confirmation context *)
(* and the answers of the state transition rules, drawn from families that *)
(* each vary what one of the checks reads.                                 *)

\* the call SemanticallyValidate(svCtx, inputs) on t
Scenario(t, inputSet, ctx, orc) ==
    /\ tx = t
    /\ inputs = inputSet
    /\ svCtx = ctx
    /\ oracle = orc
Tx(ins, outs, unlocks) == [inputs |-> ins, outputs |-> outs, unlocks |-> unlocks]
Ctx(index, unix) ==
    [ConfirmingMilestoneIndex |-> index, ConfirmingMilestoneUnix |-> unix,
     WorkingSet |-> NilWorkingSet]
NoRejects == [rejects |-> {}]

OutputIDs == 1 .. (MaxInputs + 1)
\* the inputs 1 .. n of a transaction, in order
InputsUpTo(n) == [i \in 1 .. n |-> i]
\* the input sets over the output ids in ids, each entry from cat
InputSets(ids, cat) == UNION {[S -> cat] : S \in SUBSET ids}
\* the non-empty sequences of at most n elements of S
SeqsUpTo(S, n) == UNION {[1 .. k -> S] : k \in 1 .. n}

TotalDeposit(inputSet) ==
    SumOver(DOMAIN inputSet, [id \in DOMAIN inputSet |-> inputSet[id].deposit])
\* the unlock blocks of inputs that one Ed25519 address owns: a signature,
\* then references to it
OwnerUnlocks(owner, n) ==
    [i \in 1 .. n |-> IF i = 1 THEN SignatureUnlockBlock(owner)
                      ELSE ReferenceUnlockBlock(0)]
\* one output that takes up the deposits of the input set
Balancing(inputSet) == <<SimpleOutput(Ed(2), TotalDeposit(inputSet))>>

WithSender(o, a) == [o EXCEPT !.sender = a]
WithReturn(o, a, r) == [o EXCEPT !.sender = a, !.dustReturn = r]
WithTimelock(o, index, unix) == [o EXCEPT !.timelockIndex = index, !.timelockUnix = unix]
WithExpiration(o, a, index, unix) ==
    [o EXCEPT !.sender = a, !.expirationIndex = index, !.expirationUnix = unix]
WithTokens(o, toks) == [o EXCEPT !.nativeTokens = toks]
WithMetadata(o) == [o EXCEPT !.metadata = TRUE]

\* Unlocks: who owns the inputs and which unlock block each input gets.
UnlockInputs ==
    {SimpleOutput(Ed(1), 1), SimpleOutput(Ed(2), 1), SimpleOutput(AliasAddr(5), 1),
     AliasOutput(5, Ed(1), Ed(2), 0, 1), NFTOutput(6, Ed(1), 1),
     WithExpiration(ExtendedOutput(Ed(1), 1), Ed(2), 1, NoVal)}
UnlockBlocks ==
    {SignatureUnlockBlock(Ed(1)), SignatureUnlockBlock(Ed(2)),
     AliasUnlockBlock(0), NFTUnlockBlock(0)}
        \cup {ReferenceUnlockBlock(r) : r \in 0 .. (MaxInputs - 1)}
UnlockOutputs(inputSet) ==
    {Balancing(inputSet),
     <<WithSender(ExtendedOutput(Ed(1), TotalDeposit(inputSet)), Ed(1))>>,
     <<WithSender(ExtendedOutput(Ed(1), TotalDeposit(inputSet)), Ed(2))>>}
UnlockFamily ==
    \E inputSet \in InputSets(1 .. 2, UnlockInputs) :
    \E outs \in UnlockOutputs(inputSet) :
    \E ins \in {InputsUpTo(n) : n \in 1 .. MaxInputs} \cup {<<2, 1>>} :
    \E unlocks \in [1 .. Len(ins) -> UnlockBlocks] :
    \E index \in 0 .. 1 :
        Scenario(Tx(ins, outs, unlocks), inputSet, Ctx(index, 0), NoRejects)

\* Deposits: what the input set and the outputs hold, and which return
\* amounts the inputs ask for. The extra output id is never an input of tx.
ExtraID == MaxInputs + 1
Deposits == 1 .. MaxDeposit
DepositInputs ==
    {SimpleOutput(Ed(1), d) : d \in Deposits}
        \cup {WithReturn(ExtendedOutput(Ed(1), d), Ed(2), r) : d, r \in Deposits}
        \cup {WithReturn(ExtendedOutput(Ed(1), 1), Ed(3), 1)}
DepositExtras ==
    {SimpleOutput(Ed(1), 1), WithReturn(ExtendedOutput(Ed(1), 1), Ed(2), 1)}
DepositOutputs ==
    {SimpleOutput(Ed(2), d) : d \in Deposits}
        \cup {ExtendedOutput(Ed(2), d) : d \in Deposits}
        \cup {WithMetadata(ExtendedOutput(Ed(2), d)) : d \in Deposits}
        \cup {SimpleOutput(Ed(3), d) : d \in Deposits}
\* the input sets that have an entry for each of the inputs 1 .. n and, maybe,
\* one for the extra output id
Supplied(n, cat, extras) ==
    {f @@ g : f \in [1 .. n -> cat], g \in InputSets({ExtraID}, extras)}
DepositFamily ==
    \E n \in 1 .. MaxInputs :
    \E inputSet \in Supplied(n, DepositInputs, DepositExtras) :
    \E outs \in SeqsUpTo(DepositOutputs, MaxOutputs) :
        Scenario(Tx(InputsUpTo(n), outs, OwnerUnlocks(Ed(1), n)), inputSet,
                 Ctx(0, 0), NoRejects)

\* Timelocks: the locks of the inputs against the confirming milestone.
Times == 0 .. MaxTime
MaybeTimes == {NoVal} \cup Times
TimelockInputs ==
    {WithTimelock(ExtendedOutput(Ed(1), 1), index, unix) :
        index, unix \in MaybeTimes}
TimelockFamily ==
    \E n \in 1 .. MaxInputs :
    \E inputSet \in Supplied(n, TimelockInputs, TimelockInputs) :
    \E index, unix \in Times :
        Scenario(Tx(InputsUpTo(n), Balancing(inputSet), OwnerUnlocks(Ed(1), n)),
                 inputSet, Ctx(index, unix), NoRejects)

\* Native tokens: what either side holds of each token, with and without
\* a foundry.
TokenSets == [TokenIDs -> 0 .. MaxTokenAmount]
TokenInputs == {WithTokens(ExtendedOutput(Ed(1), 1), toks) : toks \in TokenSets}
TokenExtras == TokenInputs \cup {FoundryOutput(1, AliasAddr(5), 1)}
TokenOutputs ==
    {WithTokens(ExtendedOutput(Ed(2), 1), toks) : toks \in TokenSets}
        \cup {FoundryOutput(f, AliasAddr(5), 1) : f \in TokenIDs}
TokenFamily ==
    \E inputSet \in Supplied(1, TokenInputs, TokenExtras) :
    \E outs \in SeqsUpTo(TokenOutputs, MaxOutputs) :
        Scenario(Tx(InputsUpTo(1), outs, OwnerUnlocks(Ed(1), 1)), inputSet,
                 Ctx(0, 0), NoRejects)

\* Chains: alias and NFT outputs on either side, stored and derived ids,
\* and state transition rules that reject one kind of transition.
TransitionTypes == {"Genesis", "StateChange", "Destroy"}
ChainInputs ==
    {SimpleOutput(Ed(1), 1),
     AliasOutput(5, Ed(1), Ed(1), 0, 1), AliasOutput(0, Ed(1), Ed(1), 0, 1),
     NFTOutput(6, Ed(1), 1), NFTOutput(0, Ed(1), 1)}
ChainOutputs ==
    {SimpleOutput(Ed(2), 1),
     AliasOutput(5, Ed(1), Ed(1), 1, 1), AliasOutput(0, Ed(1), Ed(1), 0, 1),
     AliasOutput(IDFromOutputID(1), Ed(1), Ed(1), 1, 1),
     NFTOutput(6, Ed(1), 1), FoundryOutput(1, AliasAddr(5), 1)}
ChainFamily ==
    \E n \in 1 .. MaxInputs :
    \E inputSet \in Supplied(n, ChainInputs, {AliasOutput(5, Ed(1), Ed(1), 0, 1)}) :
    \E outs \in SeqsUpTo(ChainOutputs, MaxOutputs) :
    \E rejects \in {{}} \cup {{ty} : ty \in TransitionTypes} :
        Scenario(Tx(InputsUpTo(n), outs, OwnerUnlocks(Ed(1), n)), inputSet,
                 Ctx(0, 0), [rejects |-> rejects])

\* Senders: which outputs name a sender, and whether an input unlocked it.
SenderOutputs ==
    {SimpleOutput(Ed(1), 1)}
        \cup {WithSender(ExtendedOutput(Ed(1), 1), Ed(k)) : k \in 1 .. 3}
SenderFamily ==
    \E owner \in {Ed(1), Ed(2)} :
    \E outs \in [1 .. 2 -> SenderOutputs] :
        Scenario(Tx(InputsUpTo(2), outs,
                    <<SignatureUnlockBlock(Ed(1)),
                      IF owner = Ed(1) THEN ReferenceUnlockBlock(0)
                      ELSE SignatureUnlockBlock(owner)>>),
                 (1 :> SimpleOutput(Ed(1), 1)) @@ (2 :> SimpleOutput(owner, 1)),
                 Ctx(0, 0), NoRejects)

\* Identities: one input, an alias output against what the output side
\* holds of its chain, or an output with expirations against the confirming
\* milestone, and a signature of one of three signers.
IdentInputs ==
    {AliasOutput(id, Ed(1), Ed(2), stateIdx, 1) : id \in {0, 5}, stateIdx \in 0 .. 1}
        \cup {WithExpiration(ExtendedOutput(Ed(1), 1), Ed(2), index, unix) :
                 index, unix \in MaybeTimes}
        \cup {WithExpiration(AliasOutput(5, Ed(1), Ed(2), 0, 1), Ed(3), 1, NoVal)}
IdentOutputs ==
    {SimpleOutput(Ed(2), 1), NFTOutput(5, Ed(1), 1)}
        \cup {AliasOutput(id, Ed(1), Ed(2), stateIdx, 1) :
                 id \in {5, IDFromOutputID(1)}, stateIdx \in 0 .. 1}
IdentFamily ==
    \E in \in IdentInputs, out \in IdentOutputs :
    \E signer \in {Ed(k) : k \in 1 .. 3} :
    \E index, unix \in Times :
        Scenario(Tx(<<1>>, <<out>>, <<SignatureUnlockBlock(signer)>>),
                 (1 :> in), Ctx(index, unix), NoRejects)

\* Large deposits: input sets whose deposits add up beyond the largest
\* uint64, against one small or large output.
HalfU64 == U64Mod \div 2
LargeDeposits == {1, HalfU64, HalfU64 + 1}
OverflowFamily ==
    \E n \in 1 .. MaxInputs :
    \E inputSet \in [1 .. n -> {SimpleOutput(Ed(1), d) : d \in LargeDeposits}] :
    \E d \in LargeDeposits \cup {2} :
        Scenario(Tx(InputsUpTo(n), <<SimpleOutput(Ed(2), d)>>, OwnerUnlocks(Ed(1), n)),
                 inputSet, Ctx(0, 0), NoRejects)

\* Unlock arrays that are shorter or longer than the inputs of a valid
\* essence.
UnlockCountFamily ==
    \E n \in 1 .. MaxInputs :
    \E k \in 0 .. (n + 1) :
    \E d \in Deposits :
        Scenario(Tx(InputsUpTo(n), <<SimpleOutput(Ed(2), d)>>, OwnerUnlocks(Ed(1), k)),
                 [i \in 1 .. n |-> SimpleOutput(Ed(1), 1)], Ctx(0, 0), NoRejects)

\* Essences that SigningMessage rejects, next to one it accepts.
EssenceFamily ==
    \E ins \in {<<>>, <<1>>, <<1, 1>>} :
    \E outs \in {<<>>, <<SimpleOutput(Ed(2), 0)>>, <<SimpleOutput(Ed(2), 1)>>} :
        Scenario(Tx(ins, outs, [i \in 1 .. Len(ins) |-> SignatureUnlockBlock(Ed(1))]),
                 (1 :> SimpleOutput(Ed(1), 1)), Ctx(0, 0), NoRejects)

\* SemanticallyValidate is about to be called, or is not called at all
CallAt(at) ==
    /\ given = [inputs |-> inputs, svCtx |-> svCtx]
    /\ pc = at
    /\ checkIdx = 1
    /\ inputIndex = 0
    /\ err = Nil
    /\ executed = <<>>
    /\ unlockLog = <<>>
    /\ stvfCalls = <<>>
NoSemanticCall ==
    /\ Scenario(Tx(<<>>, <<>>, <<>>), <<>>, Ctx(0, 0), NoRejects)
    /\ CallAt("idle")
\* the codec calls cs, none of them started
CodecCalls(cs) ==
    /\ arrayRules = [l \in 0 .. MaxCalls |-> txUnlockBlockArrayRules]
    /\ codecCalls = cs

Init ==
    /\ \/ UnlockFamily
       \/ DepositFamily
       \/ TimelockFamily
       \/ TokenFamily
       \/ ChainFamily
       \/ SenderFamily
       \/ IdentFamily
       \/ EssenceFamily
       \/ OverflowFamily
       \/ UnlockCountFamily
    /\ CallAt("call")
    /\ CodecCalls(<<>>)

Spec == Init /\ [][Next]_vars

\* Codec calls. One call at a time, over essences at and beyond every bound
\* and unlock blocks that match the inputs or not.
Ops == {"Serialize", "Deserialize"}
LongInputs == {InputsUpTo(n) : n \in {MaxInputsCount, MaxInputsCount + 1}}
CodecInputs ==
    {<<>>, <<1>>, <<1, 1>>, <<1, 2>>} \cup LongInputs
        \cup {[i \in 1 .. MaxInputsCount |-> IF i = 1 THEN 2 ELSE i]}
CodecOutputs ==
    {<<>>, <<SimpleOutput(Ed(2), 1)>>, <<SimpleOutput(Ed(2), 0)>>,
     <<SimpleOutput(Ed(2), 1), SimpleOutput(Ed(2), 1)>>}
        \cup {[i \in 1 .. n |-> ExtendedOutput(Ed(2), 1)] :
                 n \in {MaxOutputsCount, MaxOutputsCount + 1}}
\* unlock blocks for n inputs: as many, one less, one more, or as many
\* signatures of one signer
CodecUnlocks(n) ==
    {OwnerUnlocks(Ed(1), k) : k \in {m \in {n - 1, n, n + 1} : m >= 0}}
        \cup {[i \in 1 .. n |-> SignatureUnlockBlock(Ed(1))]}
SingleCallFamily ==
    \E op \in Ops, validate \in BOOLEAN, deSeriCtx \in {"nil", "paras"} :
    \E ins \in CodecInputs, outs \in CodecOutputs :
    \E unlocks \in CodecUnlocks(Len(ins)) :
        CodecCalls(<<CodecCall(op, validate, deSeriCtx, Tx(ins, outs, unlocks))>>)

\* Concurrent calls with validation, on transactions whose input counts
\* and unlock block counts differ.
ConcurrentCalls ==
    {CodecCall(op, TRUE, "paras",
               Tx(InputsUpTo(n), <<SimpleOutput(Ed(2), 1)>>, OwnerUnlocks(Ed(1), k))) :
        op \in Ops, n \in 0 .. MaxInputs, k \in 0 .. (MaxInputs + 1)}
ConcurrentFamily ==
    \E cs \in [1 .. MaxCalls -> ConcurrentCalls] : CodecCalls(cs)

CodecInit ==
    \/ SingleCallFamily /\ NoSemanticCall
    \/ ConcurrentFamily /\ NoSemanticCall
    \/ EssenceFamily /\ CallAt("call") /\ CodecCalls(<<>>)

CodecSpec == CodecInit /\ [][CodecNext]_vars

----------------------------------------------------------------------------
(* Properties. *)

Returned == pc = "done"
Succeeded == pc = "done" /\ err = Nil
\* the entries of the history of the check of that name (one at most)
Ran(check) == {i \in DOMAIN executed : executed[i].check = check}
ResultOf(check) == executed[CHOOSE i \in Ran(check) : TRUE].err

\* the deposits of the consumed outputs the inputs of tx reference, and of
\* the outputs of tx, as unbounded sums
ReferencedDeposits ==
    SumOver({i \in DOMAIN tx.inputs : tx.inputs[i] \in DOMAIN inputs},
            [i \in DOMAIN tx.inputs |->
                IF tx.inputs[i] \in DOMAIN inputs
                THEN inputs[tx.inputs[i]].deposit ELSE 0])
OutputDeposits ==
    SumOver(DOMAIN tx.outputs, [i \in DOMAIN tx.outputs |-> tx.outputs[i].deposit])

\* C1: the six checks run in the order InputUnlocks, Deposit, NativeTokens,
\* Timelock, OutputsSender, STVFOnChains; only the last check that ran may
\* have failed, its error is the error returned, a call that succeeds ran
\* all six, and once a check has failed no check runs and the working set
\* does not change any more.
C1_Order ==
    <<"InputUnlocks", "Deposit", "NativeTokens", "Timelock", "OutputsSender",
      "STVFOnChains">>
C1_FirstErrorInOrder ==
    /\ Len(executed) <= Len(C1_Order)
    /\ \A i \in DOMAIN executed :
          /\ executed[i].check = C1_Order[i]
          /\ i < Len(executed) => executed[i].err = Nil
    /\ err # Nil => pc = "done"
    /\ Returned /\ executed # <<>> => err = executed[Len(executed)].err
    /\ Succeeded /\ svCtx.WorkingSet.set => Len(executed) = Len(C1_Order)
C1_NothingAfterFailure ==
    err # Nil => svCtx' = svCtx /\ executed' = executed /\ err' = err
C1_PipelineStopsAtFirstError ==
    []C1_FirstErrorInOrder /\ [][C1_NothingAfterFailure]_vars
\* a call that fails in its fifth check, after four that passed
C1_Witness ==
    /\ Returned
    /\ Len(executed) = 5
    /\ err.kind = "ErrSenderFeatureBlockNotUnlocked"
    /\ DOMAIN svCtx.WorkingSet.UnlockedIdents # {}

\* C2: a call that succeeds has equal sums of the deposits of the consumed
\* outputs its inputs reference and of its outputs; when the sums differ the
\* Deposit check fails with ErrInputOutputSumMismatch carrying both sums.
C2_DepositsBalanced ==
    /\ Succeeded /\ svCtx.WorkingSet.set => ReferencedDeposits = OutputDeposits
    /\ Ran("Deposit") # {} /\ ReferencedDeposits # OutputDeposits =>
          ResultOf("Deposit") = SumMismatch(ReferencedDeposits, OutputDeposits)

\* the native tokens of the input side and of the output side, per token id
InputSideTokens == NativeTokenSumOfSet(inputs)
OutputSideTokens == NativeTokenSumOfSeq(tx.outputs)
UnbalancedTokens == {tok \in TokenIDs : InputSideTokens[tok] # OutputSideTokens[tok]}

\* C3: the NativeTokens check passes only if every token id whose sums on
\* the two sides differ has its foundry in OutChains; without a foundry on
\* either side the sums must be equal, otherwise the check fails with
\* ErrNativeTokenSumUnbalanced.
C3_NativeTokensBalanced ==
    Ran("NativeTokens") # {} =>
        /\ svCtx.WorkingSet.InNativeTokens = InputSideTokens
        /\ svCtx.WorkingSet.OutNativeTokens = OutputSideTokens
        /\ ResultOf("NativeTokens") = Nil =>
              \A tok \in UnbalancedTokens :
                  FoundryIDOfToken(tok) \in DOMAIN svCtx.WorkingSet.OutChains
        /\ /\ ~HasFoundryOutput(tx)
           /\ ~HasFoundryInput(inputs)
           /\ UnbalancedTokens # {}
           => ResultOf("NativeTokens").kind = "ErrNativeTokenSumUnbalanced"

\* the unlock block of the input a history entry is about
UnlockOf(e) == tx.unlocks[e.index + 1]
\* the identity of that input was unlocked before, at the index the unlock
\* block names
RecordedAtRef(e) ==
    e.target \in DOMAIN e.before /\ e.before[e.target] = UnlockOf(e).ref

\* C4: an input that unlockOutput accepts with a referential unlock at index
\* i references an index j < i, and the target identity of the input was in
\* UnlockedIdents with value j before the input was processed; a referential
\* unlock that names its own index, a later index, or another index than the
\* recorded one is rejected with ErrInvalidInputUnlock at that input.
C4_ReferentialUnlocksPointBack ==
    \A k \in DOMAIN unlockLog :
        LET e == unlockLog[k]
        IN  /\ \A a \in DOMAIN e.before : e.before[a] < e.index
            /\ e.index < Len(tx.unlocks) /\ IsReferentialUnlockBlock(UnlockOf(e)) =>
                  /\ e.err = Nil => UnlockOf(e).ref < e.index /\ RecordedAtRef(e)
                  /\ UnlockOf(e).ref >= e.index \/ ~RecordedAtRef(e) =>
                        e.err = Error("ErrInvalidInputUnlock", e.index)
\* a transaction passes the unlock pass with a referential unlock
C4_Witness ==
    /\ Ran("InputUnlocks") # {}
    /\ ResultOf("InputUnlocks") = Nil
    /\ \E k \in DOMAIN unlockLog :
          /\ IsReferentialUnlockBlock(UnlockOf(unlockLog[k]))
          /\ unlockLog[k].index = 1
          /\ UnlockOf(unlockLog[k]).ref = 0

\* the confirming milestone has reached the timelocks of an output
TimelocksReached(o) ==
    IsFeatureBlockOutput(o) =>
        /\ o.timelockIndex # NoVal => svCtx.ConfirmingMilestoneIndex >= o.timelockIndex
        /\ o.timelockUnix # NoVal => svCtx.ConfirmingMilestoneUnix >= o.timelockUnix
ConsumedOutputs ==
    {inputs[tx.inputs[i]] : i \in {j \in DOMAIN tx.inputs : tx.inputs[j] \in DOMAIN inputs}}

\* C5: the Timelock check fails with ErrInvalidInputUnlock when a consumed
\* input carries a milestone index or unix timelock above the confirming
\* milestone's, and passes when every timelock is at or below it (equal
\* included); the error names an output whose timelock is not reached.
C5_TimelockBoundary ==
    Ran("Timelock") # {} =>
        /\ (\E o \in ConsumedOutputs : ~TimelocksReached(o)) =>
              ResultOf("Timelock").kind = "ErrInvalidInputUnlock"
        /\ (\A id \in DOMAIN inputs : TimelocksReached(inputs[id])) =>
              ResultOf("Timelock") = Nil
        /\ ResultOf("Timelock") # Nil =>
              /\ ResultOf("Timelock").at \in DOMAIN inputs
              /\ ~TimelocksReached(inputs[ResultOf("Timelock").at])
\* the check passes an input whose two timelocks equal the context's values
C5_Witness ==
    /\ Ran("Timelock") # {}
    /\ ResultOf("Timelock") = Nil
    /\ \E o \in ConsumedOutputs :
          /\ o.timelockIndex = svCtx.ConfirmingMilestoneIndex
          /\ o.timelockUnix = svCtx.ConfirmingMilestoneUnix
          /\ o.timelockUnix > 0

\* the identities the consumed inputs with a return amount name, the return
\* amounts asked for an identity, and the plain transfers to it
C6_Idents ==
    {o.sender : o \in {c \in ConsumedOutputs : IsFeatureBlockOutput(c) /\ c.dustReturn # NoVal}}
C6_ReturnAsked(ident) ==
    SumOver({i \in DOMAIN tx.inputs :
                /\ tx.inputs[i] \in DOMAIN inputs
                /\ IsFeatureBlockOutput(inputs[tx.inputs[i]])
                /\ inputs[tx.inputs[i]].dustReturn # NoVal
                /\ inputs[tx.inputs[i]].sender = ident},
            [i \in DOMAIN tx.inputs |->
                IF tx.inputs[i] \in DOMAIN inputs
                THEN inputs[tx.inputs[i]].dustReturn ELSE 0])
C6_IsPlain(o) ==
    \/ o.type = "Simple"
    \/ /\ o.type = "Extended"
       /\ o.sender = NoAddr /\ o.dustReturn = NoVal
       /\ o.timelockIndex = NoVal /\ o.timelockUnix = NoVal
       /\ o.expirationIndex = NoVal /\ o.expirationUnix = NoVal
       /\ ~o.metadata
C6_PlainTransfers(ident) ==
    SumOver({i \in DOMAIN tx.outputs :
                C6_IsPlain(tx.outputs[i]) /\ tx.outputs[i].address = ident},
            [i \in DOMAIN tx.outputs |-> tx.outputs[i].deposit])
C6_Unfulfilled == {ident \in C6_Idents : C6_PlainTransfers(ident) < C6_ReturnAsked(ident)}

\* C6 as claimed: the Deposit check passes only if, for every identity the
\* consumed inputs with a return amount name, the plain transfers to it are
\* at least the sum of the return amounts; otherwise it fails with
\* ErrReturnAmountNotFulFilled.
C6_Claimed ==
    Ran("Deposit") # {} =>
        /\ ResultOf("Deposit") = Nil => C6_Unfulfilled = {}
        /\ C6_Unfulfilled # {} =>
              ResultOf("Deposit").kind = "ErrReturnAmountNotFulFilled"
\* C6 as amended: ... otherwise it fails, with ErrInputOutputSumMismatch
\* when the deposit sums of the two sides differ and with
\* ErrReturnAmountNotFulFilled when they are equal.
C6_ReturnAmountsFulfilled ==
    Ran("Deposit") # {} =>
        /\ ResultOf("Deposit") = Nil => C6_Unfulfilled = {}
        /\ C6_Unfulfilled # {} =>
              ResultOf("Deposit").kind =
                  IF DepositInSum(inputs) # DepositOutSum(tx.outputs)
                  THEN "ErrInputOutputSumMismatch"
                  ELSE "ErrReturnAmountNotFulFilled"
\* balanced deposits, two inputs asking for the same identity, and plain
\* transfers that fall short of the sum of the two return amounts
C6_Witness ==
    /\ Ran("Deposit") # {}
    /\ ResultOf("Deposit").kind = "ErrReturnAmountNotFulFilled"
    /\ \E ident \in C6_Unfulfilled :
          /\ C6_PlainTransfers(ident) > 0
          /\ C6_ReturnAsked(ident) > MaxDeposit
          /\ \E i \in DOMAIN tx.outputs :
                /\ tx.outputs[i].type = "Extended"
                /\ tx.outputs[i].address = ident
                /\ ~C6_IsPlain(tx.outputs[i])

\* the outputs of tx that name a sender no input unlocked
C7_NotUnlocked ==
    {i \in DOMAIN tx.outputs :
        /\ IsFeatureBlockOutput(tx.outputs[i])
        /\ tx.outputs[i].sender # NoAddr
        /\ tx.outputs[i].sender \notin DOMAIN svCtx.WorkingSet.UnlockedIdents}

\* C7: the OutputsSender check passes only if the sender of every output
\* that names one is a key of UnlockedIdents; otherwise it fails with
\* ErrSenderFeatureBlockNotUnlocked for the lowest such output index.
C7_SendersUnlocked ==
    Ran("OutputsSender") # {} =>
        /\ ResultOf("OutputsSender") = Nil <=> C7_NotUnlocked = {}
        /\ C7_NotUnlocked # {} =>
              /\ ResultOf("OutputsSender").kind = "ErrSenderFeatureBlockNotUnlocked"
              /\ ResultOf("OutputsSender").at + 1 \in C7_NotUnlocked
              /\ \A i \in C7_NotUnlocked : ResultOf("OutputsSender").at + 1 <= i
\* two outputs with senders that are not unlocked, after one whose sender is
C7_Witness ==
    /\ Ran("OutputsSender") # {}
    /\ ResultOf("OutputsSender").at = 1
    /\ Len(tx.outputs) > 1
    /\ tx.outputs[1].sender \in DOMAIN svCtx.WorkingSet.UnlockedIdents

\* the chains of the two sides of the working set
C8_In == DOMAIN svCtx.WorkingSet.InChains
C8_Out == DOMAIN svCtx.WorkingSet.OutChains
\* the one call a chain is due
C8_Due(c) ==
    IF c \in C8_In /\ c \notin C8_Out
    THEN [chain |-> c, type |-> "Destroy", on |-> svCtx.WorkingSet.InChains[c],
          next |-> NoOutput]
    ELSE IF c \in C8_In
    THEN [chain |-> c, type |-> "StateChange", on |-> svCtx.WorkingSet.InChains[c],
          next |-> svCtx.WorkingSet.OutChains[c]]
    ELSE [chain |-> c, type |-> "Genesis", on |-> svCtx.WorkingSet.OutChains[c],
          next |-> NoOutput]

\* C8: the STVF check calls the state transition validation at most once
\* per chain id of InChains and OutChains, and when it passes exactly once:
\* Destroy on the input side instance of a chain only in InChains,
\* StateChange on the input side instance with the output side instance as
\* next for a chain in both, Genesis on the output side instance of a chain
\* only in OutChains; a call that returns an error fails the transaction
\* with that error.
C8_OneTransitionPerChain ==
    /\ \A i, j \in DOMAIN stvfCalls :
          stvfCalls[i].chain = stvfCalls[j].chain => i = j
    /\ \A i \in DOMAIN stvfCalls :
          /\ stvfCalls[i].chain \in C8_In \cup C8_Out
          /\ stvfCalls[i] = C8_Due(stvfCalls[i].chain)
          /\ stvfCalls[i].type \in oracle.rejects =>
                /\ Returned
                /\ err.kind = "ErrInvalidChainStateTransition"
                /\ i = Len(stvfCalls)
    /\ Ran("STVFOnChains") # {} /\ ResultOf("STVFOnChains") = Nil =>
          Called(stvfCalls) = C8_In \cup C8_Out
    /\ Ran("STVFOnChains") = {} /\ Returned => stvfCalls = <<>>
\* a transaction that destroys one chain, changes the state of another and
\* creates a third
C8_Witness ==
    /\ Succeeded
    /\ {stvfCalls[i].type : i \in DOMAIN stvfCalls} =
          {"Destroy", "StateChange", "Genesis"}

\* the positions of the inputs of tx that the input set has no entry for
C9_Missing == {i \in DOMAIN tx.inputs : tx.inputs[i] \notin DOMAIN inputs}
C9_FirstMissing == CHOOSE i \in C9_Missing : \A j \in C9_Missing : i <= j
\* the inputs before position i were all unlocked
C9_UnlockedBefore(i) ==
    /\ Len(unlockLog) >= i - 1
    /\ \A k \in 1 .. (i - 1) : unlockLog[k].err = Nil

\* C9: a call for a transaction with an input whose UTXO the input set does
\* not hold never succeeds, and when the unlock pass unlocked every input
\* before the first such input it fails with ErrMissingUTXO for that input.
C9_MissingUTXO ==
    Returned /\ C9_Missing # {} =>
        /\ err # Nil
        /\ Ran("InputUnlocks") # {} /\ C9_UnlockedBefore(C9_FirstMissing) =>
              err = Error("ErrMissingUTXO", C9_FirstMissing - 1)
\* the second input is the one not supplied, the first was unlocked
C9_Witness ==
    /\ Returned
    /\ C9_Missing # {}
    /\ C9_FirstMissing = 2
    /\ err.kind = "ErrMissingUTXO"

\* C10 as claimed: when the call has returned, the input set and the context
\* are as the caller passed them, the working set not being reachable from
\* the context.
C10_Claimed ==
    Returned => inputs = given.inputs /\ svCtx = given.svCtx
\* C10 as amended: the input set and the milestone index and unix time of
\* the context are never changed, but the call stores the working set it
\* builds in the WorkingSet field of the caller's context, where it stays
\* after the return: nil when building it failed, and else the working set
\* with the identities the unlock pass unlocked.
C10_WorkingSetStaysInContext ==
    /\ inputs = given.inputs
    /\ svCtx.ConfirmingMilestoneIndex = given.svCtx.ConfirmingMilestoneIndex
    /\ svCtx.ConfirmingMilestoneUnix = given.svCtx.ConfirmingMilestoneUnix
    /\ Returned =>
          /\ svCtx.WorkingSet.set <=> EssenceSyntacticallyValidate(tx) = Nil
          /\ svCtx.WorkingSet.set =>
                /\ svCtx.WorkingSet.OutChains = OutChainsOf(tx.outputs)
                /\ \A k \in DOMAIN unlockLog :
                      /\ unlockLog[k].err = Nil
                      /\ UnlockOf(unlockLog[k]).type = "Signature"
                      => unlockLog[k].target \in DOMAIN svCtx.WorkingSet.UnlockedIdents
\* a call that returned an error and left unlocked identities behind
C10_Witness ==
    /\ Returned
    /\ err # Nil
    /\ svCtx.WorkingSet.set
    /\ DOMAIN svCtx.WorkingSet.UnlockedIdents # {}
    /\ svCtx # given.svCtx

----------------------------------------------------------------------------
(* Properties of the codec calls. *)

\* the call has written or read its essence: nothing fails before that
EssenceDone(call) ==
    LET pos(x) == CHOOSE k \in DOMAIN Statements(call.op) : Statements(call.op)[k] = x
    IN  pos(call.pc) > pos("essence")
InputCount(call) == Len(call.t.inputs)
UnlockCount(call) == Len(call.t.unlocks)

\* C11: the package variable txUnlockBlockArrayRules is never written, and
\* whatever the interleaving of the calls, each call holds its unlock blocks
\* against the bounds of its own transaction: min and max both the number
\* of its inputs, so that with validation it ends with an array bound error
\* exactly when its own counts differ.
C11_RulesAreLocal ==
    /\ arrayRules[GlobalRules] = txUnlockBlockArrayRules
    /\ \A c \in DOMAIN codecCalls :
          LET call == codecCalls[c]
          IN  call.enforced # NoRules =>
                 /\ call.enforced.Min = InputCount(call)
                 /\ call.enforced.Max = InputCount(call)
                 /\ call.validate /\ UnlockCount(call) # InputCount(call) =>
                       call.pc = "done" /\ call.err.kind = "ArrayBoundViolation"
                 /\ call.validate /\ UnlockCount(call) = InputCount(call) =>
                       call.err = Nil \/ call.err.kind # "ArrayBoundViolation"
\* two calls on transactions with different input counts: one has held its
\* unlock blocks against its bounds and was rejected, the other has set its
\* own bounds and is about to
C11_Witness ==
    \E c, d \in DOMAIN codecCalls :
        /\ c # d
        /\ InputCount(codecCalls[c]) # InputCount(codecCalls[d])
        /\ codecCalls[c].enforced # NoRules
        /\ codecCalls[c].err # Nil
        /\ codecCalls[d].pc = "unlocks"
        /\ UnlockCount(codecCalls[d]) = InputCount(codecCalls[d])
        /\ UnlockCount(codecCalls[d]) = UnlockCount(codecCalls[c])
        /\ arrayRules[RulesLocation(d)].Min = InputCount(codecCalls[d])

\* the calls with validation that have returned
ValidatedAndDone == {c \in DOMAIN codecCalls :
                        codecCalls[c].validate /\ codecCalls[c].pc = "done"}

\* C12 as claimed: a call with validation succeeds only if the transaction
\* has as many unlock blocks as inputs, and fails with an array bound error
\* when it has fewer or more.
C12_Claimed ==
    \A c \in ValidatedAndDone :
        LET call == codecCalls[c]
        IN  /\ call.err = Nil => UnlockCount(call) = InputCount(call)
            /\ UnlockCount(call) # InputCount(call) =>
                  call.err # Nil /\ call.err.kind = "ArrayBoundViolation"
\* C12 as amended: ... and fails when it has fewer or more: with the error
\* of the essence when the essence is itself rejected, which comes first,
\* and else with an array bound error.
C12_UnlockCountIsInputCount ==
    \A c \in ValidatedAndDone :
        LET call == codecCalls[c]
        IN  /\ call.err = Nil => UnlockCount(call) = InputCount(call)
            /\ UnlockCount(call) # InputCount(call) =>
                  /\ call.err # Nil
                  /\ call.err = IF call.essenceErr # Nil THEN call.essenceErr
                                ELSE Error("ArrayBoundViolation", -1)
\* a written transaction with one unlock block too many and a read one with
\* one too few, each rejected for its unlock blocks
C12_Witness ==
    \E c \in ValidatedAndDone :
        LET call == codecCalls[c]
        IN  /\ call.essenceErr = Nil
            /\ call.err.kind = "ArrayBoundViolation"
            /\ InputCount(call) = 2
            /\ \/ call.op = "Serialize" /\ UnlockCount(call) = 3
               \/ call.op = "Deserialize" /\ UnlockCount(call) = 1

\* the calls with validation that have written or read their essence
ValidatedEssences == {c \in DOMAIN codecCalls :
                         codecCalls[c].validate /\ EssenceDone(codecCalls[c])}
WithinBounds(count, min, max) == min <= count /\ count <= max

\* C13: writing an essence with validation, which runs
\* TransactionEssence.SyntacticallyValidate, accepts only essences of 1 to
\* 127 inputs and 1 to 127 outputs: no inputs is ErrMinInputsNotReached,
\* else no outputs is ErrMinOutputsNotReached, and more than 127 inputs or
\* outputs are rejected too.
C13_EssenceCounts ==
    \A c \in ValidatedEssences :
        LET call == codecCalls[c]
        IN  call.op = "Serialize" =>
               /\ InputCount(call) = 0 =>
                     call.essenceErr = Error("ErrMinInputsNotReached", -1)
               /\ InputCount(call) > 0 /\ Len(call.t.outputs) = 0 =>
                     call.essenceErr = Error("ErrMinOutputsNotReached", -1)
               /\ call.essenceErr = Nil =>
                     /\ WithinBounds(InputCount(call), MinInputsCount, MaxInputsCount)
                     /\ WithinBounds(Len(call.t.outputs), MinOutputsCount,
                                     MaxOutputsCount)

----------------------------------------------------------------------------
(* Signature unlocks, unlock kinds and the identity an input is unlocked   *)
(* for.                                                                     *)

\* UnlockedIdents after the input of history entry k was processed
AfterUnlock(k) ==
    IF k < Len(unlockLog) THEN unlockLog[k + 1].before
    ELSE svCtx.WorkingSet.UnlockedIdents
\* history entry k is about a directly unlockable identity and a signature
\* unlock block
SignatureCase(k) ==
    LET e == unlockLog[k]
    IN  /\ e.index < Len(tx.unlocks)
        /\ e.target # NoAddr
        /\ IsDirectUnlockableAddress(e.target)
        /\ UnlockOf(e).type = "Signature"
SignatureUnlocked(k) == SignatureCase(k) /\ unlockLog[k].err = Nil

\* C15: for an input with a directly unlockable target identity and a
\* signature unlock: an identity that is already a key of UnlockedIdents is
\* rejected with ErrInvalidInputUnlock and the signature is not checked;
\* otherwise the signature is checked, a failed check rejects the
\* transaction, a successful one records the identity at the input's index.
\* Each identity is signature-unlocked at most once, the index recorded for
\* an identity is that of the input that first unlocked it and it never
\* changes.
C15_SignatureUnlocksOnce ==
    /\ \A k \in DOMAIN unlockLog :
          LET e == unlockLog[k]
          IN  /\ SignatureCase(k) =>
                    IF e.target \in DOMAIN e.before
                    THEN /\ e.err = Error("ErrInvalidInputUnlock", e.index)
                         /\ ~e.signatureChecked
                         /\ AfterUnlock(k) = e.before
                    ELSE /\ e.signatureChecked
                         /\ IF SignatureUnlocks(e.target, UnlockOf(e))
                            THEN /\ e.err = Nil
                                 /\ AfterUnlock(k) = (e.target :> e.index) @@ e.before
                            ELSE /\ e.err # Nil
                                 /\ pc = "done" /\ err = e.err
                                 /\ AfterUnlock(k) = e.before
              /\ \A a \in DOMAIN e.before :
                    a \in DOMAIN AfterUnlock(k) /\ AfterUnlock(k)[a] = e.before[a]
    /\ \A j, k \in DOMAIN unlockLog :
          /\ SignatureUnlocked(j) /\ SignatureUnlocked(k)
          /\ unlockLog[j].target = unlockLog[k].target
          => j = k
    /\ \A a \in DOMAIN svCtx.WorkingSet.UnlockedIdents :
          \E k \in DOMAIN unlockLog :
              /\ unlockLog[k].index = svCtx.WorkingSet.UnlockedIdents[a]
              /\ unlockLog[k].err = Nil
              /\ a \notin DOMAIN unlockLog[k].before
              /\ \A j \in 1 .. k - 1 : a \notin DOMAIN AfterUnlock(j)
\* a second signature unlock for an identity that input 0 unlocked is
\* rejected at input 1
C15_Witness ==
    \E k \in DOMAIN unlockLog :
        /\ SignatureCase(k)
        /\ unlockLog[k].index = 1
        /\ unlockLog[k].target \in DOMAIN unlockLog[k].before
        /\ unlockLog[k].before[unlockLog[k].target] = 0
        /\ unlockLog[k].err = Error("ErrInvalidInputUnlock", 1)

\* history entry k has an unlock block and a target identity
UnlockCase(k) ==
    unlockLog[k].index < Len(tx.unlocks) /\ unlockLog[k].target # NoAddr
\* the unlock block types that fit a chain constrained address: an alias
\* unlock block for an alias address, an NFT unlock block for an NFT address
FitsChainAddress(u, a) ==
    \/ u.type = "Alias" /\ a.kind = "alias"
    \/ u.type = "NFT" /\ a.kind = "nft"

\* C16: an input whose target identity is an alias or NFT address is
\* rejected with ErrInvalidInputUnlock unless its unlock block is the
\* chainable referential unlock block of that address kind (a signature or
\* a plain reference unlock block is rejected); an input whose target
\* identity is directly unlockable is rejected with ErrInvalidInputUnlock
\* when its unlock block is an alias or NFT unlock block.
C16_UnlockKindMatchesIdentity ==
    \A k \in DOMAIN unlockLog :
        LET e == unlockLog[k]
        IN  UnlockCase(k) =>
              /\ /\ IsChainConstrainedAddress(e.target)
                 /\ ~FitsChainAddress(UnlockOf(e), e.target)
                 => e.err = Error("ErrInvalidInputUnlock", e.index)
              /\ /\ IsDirectUnlockableAddress(e.target)
                 /\ UnlockOf(e).type \in {"Alias", "NFT"}
                 => e.err = Error("ErrInvalidInputUnlock", e.index)
\* a directly unlockable identity that input 0 unlocked is refused an alias
\* or NFT unlock block naming input 0, and a chain constrained address is
\* refused a signature unlock block
C16_Witness ==
    \E k \in DOMAIN unlockLog :
        /\ UnlockCase(k)
        /\ unlockLog[k].err = Error("ErrInvalidInputUnlock", unlockLog[k].index)
        /\ IsDirectUnlockableAddress(unlockLog[k].target)
        /\ UnlockOf(unlockLog[k]).type \in {"Alias", "NFT"}
        /\ RecordedAtRef(unlockLog[k])

\* the chain address of the input of history entry j, NoAddr when the input
\* is no chain constrained output with an addressable chain
ChainAddressOf(j) ==
    LET e == unlockLog[j]
        chain == ChainID(e.output, IDFromOutputID(tx.inputs[e.index + 1]))
    IN  IF IsChainConstrainedOutput(e.output) /\ Addressable(chain)
        THEN chain ELSE NoAddr

AliasIDOf(e) ==
    IF e.output.chainId # 0 THEN AliasAddr(e.output.chainId)
    ELSE AliasAddr(IDFromOutputID(tx.inputs[e.index + 1]))
\* an alias input without expiration, so that the identity to unlock is
\* the target of the unlock
AliasCase(k) ==
    LET e == unlockLog[k]
    IN  /\ e.output.type = "Alias"
        /\ e.target # NoAddr
        /\ ~HasExpirationIndex(e.output) /\ ~HasExpirationUnix(e.output)
\* the output side continues the alias with another state index
StateTransition(e) ==
    /\ AliasIDOf(e) \in DOMAIN svCtx.WorkingSet.OutChains
    /\ svCtx.WorkingSet.OutChains[AliasIDOf(e)].stateIndex # e.output.stateIndex

\* C18: the identity to unlock of an alias input is its governance
\* controller when the alias id (stored, or derived from the input's UTXO
\* reference when the stored id is zero) has no entry in OutChains or has
\* one with the input's state index, and its state controller when the
\* entry has another state index.
C18_AliasIdentToUnlock ==
    \A k \in DOMAIN unlockLog :
        LET e == unlockLog[k]
        IN  AliasCase(k) =>
              IF StateTransition(e)
              THEN e.target = e.output.stateController
              ELSE e.target = e.output.governanceController
\* an alias input with a derived id and distinct controllers is unlocked
\* for its state controller
C18_Witness ==
    \E k \in DOMAIN unlockLog :
        /\ AliasCase(k)
        /\ unlockLog[k].output.chainId = 0
        /\ unlockLog[k].output.stateController # unlockLog[k].output.governanceController
        /\ StateTransition(unlockLog[k])
        /\ unlockLog[k].target = unlockLog[k].output.stateController
        /\ unlockLog[k].err = Nil

\* the expirations of an output against the confirming milestone
Expires(o) == HasExpirationIndex(o) \/ HasExpirationUnix(o)
IndexExpired(o) == o.expirationIndex <= svCtx.ConfirmingMilestoneIndex
UnixExpired(o) == o.expirationUnix <= svCtx.ConfirmingMilestoneUnix
AllExpired(o) ==
    /\ HasExpirationIndex(o) => IndexExpired(o)
    /\ HasExpirationUnix(o) => UnixExpired(o)
\* the identity of the output itself: its address, or the controller of an
\* alias output
OwnIdent(e) == identToUnlock(svCtx.WorkingSet, tx, e.output, e.index)

\* C19: the target identity of an input with an expiration and a sender is
\* the sender's address when every expiration it carries has passed (index
\* and unix time at or below the confirming milestone's, both when both are
\* present), and the output's own identity when one of them has not; an
\* input without expiration keeps its own identity.
C19_ExpirationOverride ==
    \A k \in DOMAIN unlockLog :
        LET e == unlockLog[k]
        IN  e.target # NoAddr =>
              IF Expires(e.output) /\ AllExpired(e.output)
              THEN e.target = e.output.sender
              ELSE e.target = OwnIdent(e)
\* of two expirations one has passed: the input is unlocked for its own
\* address, not for the sender
C19_Witness ==
    \E k \in DOMAIN unlockLog :
        LET e == unlockLog[k]
        IN  /\ HasExpirationIndex(e.output) /\ HasExpirationUnix(e.output)
            /\ IndexExpired(e.output) /\ ~UnixExpired(e.output)
            /\ e.output.sender # e.output.address
            /\ e.target = e.output.address
            /\ e.err = Nil

\* the deposits of the supplied input set, as an unbounded sum
SuppliedDeposits ==
    SumOver(DOMAIN inputs, [id \in DOMAIN inputs |-> inputs[id].deposit])
MaxU64 == U64Mod - 1

\* C20: the Deposit check rejects a transaction when the unbounded sum of
\* the deposits of the supplied input set, or of the outputs, is beyond the
\* largest uint64, and never accepts two sides whose unbounded sums differ.
C20_DepositOverflowDetected ==
    Ran("Deposit") # {} =>
        /\ SuppliedDeposits > MaxU64 \/ OutputDeposits > MaxU64 =>
              ResultOf("Deposit") # Nil
        /\ SuppliedDeposits # OutputDeposits => ResultOf("Deposit") # Nil

----------------------------------------------------------------------------
(* Chain addresses in the unlock pass, the unlock array, and input set     *)
(* entries no input references.                                             *)

ChainAddresses(idents) == {a \in DOMAIN idents : IsChainConstrainedAddress(a)}

C22_UnlockArrayInRange ==
    /\ \A k \in DOMAIN unlockLog :
          /\ unlockLog[k].index < Len(tx.unlocks)
          /\ unlockLog[k].err.kind # "panic"
    /\ svCtx.WorkingSet.set /\ Len(tx.unlocks) < Len(tx.inputs) =>
          ~(pc = "done" /\ err.kind = "panic")

\* the entries of the supplied input set that the inputs of tx reference
ReferencedSet ==
    [id \in Range(tx.inputs) \cap DOMAIN inputs |-> inputs[id]]
\* the calls TxSemanticSTVFOnChains can make when InChains is built from the
\* referenced entries only
ReferencedCalls ==
    UNION {LET ws == [svCtx.WorkingSet EXCEPT !.InChains = inChains]
           IN  {InChainCall(ws, c) : c \in DOMAIN ws.InChains}
                   \cup {OutChainCall(ws, c) :
                            c \in DOMAIN ws.OutChains \ DOMAIN ws.InChains} :
           inChains \in InChainsChoices(ReferencedSet)}

\* C23: the verdict of SemanticallyValidate is the one the same
\* transaction gets under the same confirmation context from the input set
\* without the entries no input references: each check that ran returned
\* what it returns on the referenced entries, and every state transition
\* call is one those entries give rise to.
C23_VerdictOfReferencedEntries ==
    /\ Ran("Deposit") # {} =>
          ResultOf("Deposit").kind = TxSemanticDeposit(tx, ReferencedSet).kind
    /\ Ran("NativeTokens") # {} =>
          ResultOf("NativeTokens").kind =
              TxSemanticNativeTokens(svCtx.WorkingSet, tx, ReferencedSet).err.kind
    /\ Ran("Timelock") # {} =>
          ResultOf("Timelock").kind \in
              {e.kind : e \in TxSemanticTimelock(svCtx, ReferencedSet)}
    /\ \A i \in DOMAIN stvfCalls : stvfCalls[i] \in ReferencedCalls

====
